---- MODULE Spec2Model ----
(***************************************************************************)
(* A model of src/app.py: the NERBalancer class (read_conll, write_conll,  *)
(* balance_dataset and its helpers) and the /balance request handler.      *)
(*                                                                         *)
(* Text is modelled at character level: a file is a sequence of one-       *)
(* character strings, a token (word or tag) is a non-empty sequence of     *)
(* non-whitespace characters.  Sentence indices are 0-based as in the      *)
(* code; sentences[idx] of the code is sentences[idx + 1] here.            *)
(***************************************************************************)
EXTENDS Integers, Sequences, FiniteSets, TLC

VARIABLES
    sentences,            \* balance_dataset's argument: list of lists of <<word, tag>>
    target_frequencies,   \* self.target_frequencies
    max_iterations,       \* self.max_iterations
    sentence_tag_counts,  \* app.py:79
    best_selected,        \* app.py:80
    best_score,           \* app.py:81
    selected,             \* app.py:84
    current_counts,       \* app.py:85
    iteration,            \* rounds of the loop of app.py:87 begun so far (inside
                          \* the body, the code's iteration + 1)
    improved,             \* app.py:88
    snapshot,             \* list(selected) of app.py:91, list(available) of app.py:101
    todo,                 \* the part of the snapshot the for loop has not visited yet
    visits,               \* how often each index was visited in the running pass
    result,               \* the list balance_dataset returns (app.py:131)
    fs,                   \* the file system: path -> content (a sequence of characters)
    reread,               \* the sentences read back from a written file
    request,              \* the POST /balance request being handled
    parsed_targets,       \* the handler's target_frequencies after json.loads
    response,             \* the handler's response: <<status, body>>, <<>> while running
    pc                    \* position in the code

balanceVars == <<sentences, target_frequencies, max_iterations, sentence_tag_counts,
                 best_selected, best_score, selected, current_counts, iteration,
                 improved, snapshot, todo, visits, result>>

ioVars == <<fs, reread>>

handlerVars == <<request, parsed_targets, response>>

vars == <<balanceVars, ioVars, handlerVars, pc>>

(***************************************************************************)
(* Bounds of the model.                                                    *)
(***************************************************************************)
MaxSentences == 3
MaxIter == 2
MaxLines == 3

(***************************************************************************)
(* Tokens.                                                                 *)
(***************************************************************************)
W == <<"w">>
A == <<"A">>
B == <<"B">>
OTag == <<"O">>

Rep(tag, n) == [i \in 1..n |-> <<W, tag>>]

\* The sentences a corpus is drawn from: 1 and 9 tokens tagged A, one
\* sentence tagged B and O, one sentence of O only.
SentencePool ==
    { Rep(A, 1), Rep(A, 9), <<<<W, B>>, <<W, OTag>>>>, <<<<W, OTag>>>> }

Corpora == UNION { [1..n -> SentencePool] : n \in 0..MaxSentences }

TargetValues == {0, 1, 10}

\* The target maps: A absent or with a target of TargetValues, B absent or
\* with a target of 1.
TargetMaps ==
    { f \in UNION { [D -> TargetValues] : D \in SUBSET {A, B} } :
        B \in DOMAIN f => f[B] = 1 }

(***************************************************************************)
(* Helpers of the class.                                                   *)
(***************************************************************************)
\* dict.get(key, 0), and a read of a defaultdict(int)
Get(d, key) == IF key \in DOMAIN d THEN d[key] ELSE 0

Abs(x) == IF x < 0 THEN -x ELSE x

RECURSIVE SumOver(_, _)
SumOver(S, f) ==
    IF S = {} THEN 0
    ELSE LET x == CHOOSE y \in S : TRUE IN f[x] + SumOver(S \ {x}, f)

\* app.py:37-43
get_sentence_tag_counts(sentence) ==
    LET tags == { sentence[i][2] : i \in 1..Len(sentence) } \ {OTag}
    IN  [tag \in tags |-> Cardinality({ i \in 1..Len(sentence) : sentence[i][2] = tag })]

\* app.py:45-52
get_current_counts(sel, stc) ==
    LET tags == UNION { DOMAIN stc[idx + 1] : idx \in sel }
    IN  [tag \in tags |->
            SumOver(sel, [idx \in sel |-> Get(stc[idx + 1], tag)])]

\* app.py:54-60
calculate_frequency_score(counts) ==
    0 - SumOver(DOMAIN target_frequencies,
                [tag \in DOMAIN target_frequencies |->
                    Abs(Get(counts, tag) - target_frequencies[tag])])

\* app.py:62-75.  target * 0.8 is a float; for integers m and t,
\* m < t * 0.8 in IEEE doubles is 5 * m < 4 * t.
should_remove_sentence_strict(idx, sentence_counts, counts) ==
    \A tag \in DOMAIN sentence_counts :
        tag \in DOMAIN target_frequencies =>
            /\ ~ (Get(counts, tag) < target_frequencies[tag])
            /\ ~ (Get(counts, tag) - sentence_counts[tag] < target_frequencies[tag])

should_remove_sentence_touching(idx, sentence_counts, counts) ==
    /\ \E tag \in DOMAIN sentence_counts : tag \in DOMAIN target_frequencies
    /\ \A tag \in DOMAIN sentence_counts :
        tag \in DOMAIN target_frequencies =>
            /\ ~ (Get(counts, tag) < target_frequencies[tag])
            /\ ~ (5 * (Get(counts, tag) - sentence_counts[tag]) < 4 * target_frequencies[tag])

should_remove_sentence(idx, sentence_counts, counts) ==
    \A tag \in DOMAIN sentence_counts :
        tag \in DOMAIN target_frequencies =>
            /\ ~ (Get(counts, tag) < target_frequencies[tag])
            /\ ~ (5 * (Get(counts, tag) - sentence_counts[tag]) < 4 * target_frequencies[tag])

\* app.py:103-108.  target * 1.1 is a float; for integers m and t,
\* m > t * 1.1 in IEEE doubles is 10 * m > 11 * t.
can_add_exact(sentence_counts, counts) ==
    \A tag \in DOMAIN sentence_counts :
        tag \in DOMAIN target_frequencies =>
            ~ (Get(counts, tag) + sentence_counts[tag] > target_frequencies[tag])

can_add(sentence_counts, counts) ==
    \A tag \in DOMAIN sentence_counts :
        tag \in DOMAIN target_frequencies =>
            ~ (10 * (Get(counts, tag) + sentence_counts[tag]) > 11 * target_frequencies[tag])

\* app.py:95-96
SubtractTargetsOnly(counts, sentence_counts) ==
    [tag \in DOMAIN counts |->
        IF tag \in DOMAIN sentence_counts /\ tag \in DOMAIN target_frequencies
        THEN counts[tag] - sentence_counts[tag] ELSE counts[tag]]

SubtractCounts(counts, sentence_counts) ==
    [tag \in DOMAIN counts \cup DOMAIN sentence_counts |->
        Get(counts, tag) - Get(sentence_counts, tag)]

\* app.py:112-113
AddCounts(counts, sentence_counts) ==
    [tag \in DOMAIN counts \cup DOMAIN sentence_counts |->
        Get(counts, tag) + Get(sentence_counts, tag)]

\* float('-inf') of app.py:81: below every score a run can compute
NegInf == -1000000

RECURSIVE sorted_descending(_)
sorted_descending(S) ==
    IF S = {} THEN <<>>
    ELSE LET m == CHOOSE x \in S : \A y \in S : x >= y
         IN  <<m>> \o sorted_descending(S \ {m})

\* sorted(best_selected) of app.py:131
RECURSIVE sorted(_)
sorted(S) ==
    IF S = {} THEN <<>>
    ELSE LET m == CHOOSE x \in S : \A y \in S : x <= y
         IN  <<m>> \o sorted(S \ {m})

AllIndices == 0 .. (Len(sentences) - 1)

ZeroVisits == [idx \in AllIndices |-> 0]

(***************************************************************************)
(* balance_dataset, app.py:77-131.                                         *)
(***************************************************************************)
Init ==
    /\ sentences \in Corpora
    /\ target_frequencies \in TargetMaps
    /\ max_iterations \in 0..MaxIter
    /\ sentence_tag_counts = <<>>
    /\ best_selected = {}
    /\ best_score = NegInf
    /\ selected = {}
    /\ current_counts = <<>>
    /\ iteration = 0
    /\ improved = FALSE
    /\ snapshot = {}
    /\ todo = {}
    /\ visits = <<>>
    /\ result = <<>>
    /\ fs = <<>>
    /\ reread = <<>>
    /\ request = <<>>
    /\ parsed_targets = <<>>
    /\ response = <<>>
    /\ pc = "balance"

\* app.py:79-85
Setup ==
    /\ pc = "balance"
    /\ LET stc == [i \in 1..Len(sentences) |-> get_sentence_tag_counts(sentences[i])]
       IN  /\ sentence_tag_counts' = stc
           /\ current_counts' = get_current_counts(AllIndices, stc)
    /\ best_selected' = {}
    /\ best_score' = NegInf
    /\ selected' = AllIndices
    /\ iteration' = 0
    /\ visits' = ZeroVisits
    /\ pc' = "loop"
    /\ UNCHANGED <<sentences, target_frequencies, max_iterations, improved, snapshot,
                   todo, result>>
    /\ UNCHANGED <<ioVars, handlerVars>>

\* app.py:87-91: the loop test, improved = False and the snapshot list(selected)
LoopLimitOffByOne == max_iterations + 1

LoopLimit == max_iterations

BeginIteration ==
    /\ pc = "loop"
    /\ iteration < LoopLimit
    /\ iteration' = iteration + 1
    /\ improved' = FALSE
    /\ snapshot' = selected
    /\ todo' = selected
    /\ visits' = ZeroVisits
    /\ pc' = "remove"
    /\ UNCHANGED <<sentences, target_frequencies, max_iterations, sentence_tag_counts,
                   best_selected, best_score, selected, current_counts, result>>
    /\ UNCHANGED <<ioVars, handlerVars>>

\* app.py:91-97, one round of the for loop.  list(selected) lists a set: the
\* order of its elements is whatever the set's iteration yields.
RemoveStep ==
    /\ pc = "remove"
    /\ \E idx \in todo :
        LET sentence_counts == sentence_tag_counts[idx + 1] IN
        /\ todo' = todo \ {idx}
        /\ visits' = [visits EXCEPT ![idx] = @ + 1]
        /\ IF should_remove_sentence(idx, sentence_counts, current_counts)
           THEN /\ selected' = selected \ {idx}
                /\ current_counts' = SubtractCounts(current_counts, sentence_counts)
                /\ improved' = TRUE
           ELSE UNCHANGED <<selected, current_counts, improved>>
    /\ UNCHANGED <<sentences, target_frequencies, max_iterations, sentence_tag_counts,
                   best_selected, best_score, iteration, snapshot, result, pc>>
    /\ UNCHANGED <<ioVars, handlerVars>>

\* app.py:100-101: available and the snapshot list(available)
BeginAddition ==
    /\ pc = "remove"
    /\ todo = {}
    /\ snapshot' = AllIndices \ selected
    /\ todo' = AllIndices \ selected
    /\ visits' = ZeroVisits
    /\ pc' = "add"
    /\ UNCHANGED <<sentences, target_frequencies, max_iterations, sentence_tag_counts,
                   best_selected, best_score, selected, current_counts, iteration,
                   improved, result>>
    /\ UNCHANGED <<ioVars, handlerVars>>

\* app.py:101-114, one round of the for loop
AddStep ==
    /\ pc = "add"
    /\ \E idx \in todo :
        LET sentence_counts == sentence_tag_counts[idx + 1] IN
        /\ todo' = todo \ {idx}
        /\ visits' = [visits EXCEPT ![idx] = @ + 1]
        /\ IF can_add(sentence_counts, current_counts)
           THEN /\ selected' = selected \cup {idx}
                /\ current_counts' = AddCounts(current_counts, sentence_counts)
                /\ improved' = TRUE
           ELSE UNCHANGED <<selected, current_counts, improved>>
    /\ UNCHANGED <<sentences, target_frequencies, max_iterations, sentence_tag_counts,
                   best_selected, best_score, iteration, snapshot, result, pc>>
    /\ UNCHANGED <<ioVars, handlerVars>>

\* app.py:116-123: the score, the best so far, the early stop
EndIteration ==
    /\ pc = "add"
    /\ todo = {}
    /\ LET score == calculate_frequency_score(current_counts) IN
        IF score > best_score
        THEN /\ best_score' = score
             /\ best_selected' = selected
        ELSE UNCHANGED <<best_score, best_selected>>
    /\ pc' = IF ~ improved THEN "return" ELSE "loop"
    /\ UNCHANGED <<sentences, target_frequencies, max_iterations, sentence_tag_counts,
                   selected, current_counts, iteration, improved, snapshot, todo,
                   visits, result>>
    /\ UNCHANGED <<ioVars, handlerVars>>

\* app.py:87: range(self.max_iterations) is exhausted
LoopExit ==
    /\ pc = "loop"
    /\ ~ (iteration < LoopLimit)
    /\ pc' = "return"
    /\ UNCHANGED <<balanceVars, ioVars, handlerVars>>

\* app.py:131
Return ==
    /\ pc = "return"
    /\ result' = [k \in 1..Cardinality(best_selected) |->
                    sentences[sorted(best_selected)[k] + 1]]
    /\ pc' = "done"
    /\ UNCHANGED <<sentences, target_frequencies, max_iterations, sentence_tag_counts,
                   best_selected, best_score, selected, current_counts, iteration,
                   improved, snapshot, todo, visits>>
    /\ UNCHANGED <<ioVars, handlerVars>>

Next ==
    \/ Setup
    \/ BeginIteration
    \/ RemoveStep
    \/ BeginAddition
    \/ AddStep
    \/ EndIteration
    \/ LoopExit
    \/ Return

Spec == Init /\ [][Next]_vars

\* balance_dataset runs on one thread with nothing to wait for: a step that
\* can be taken is taken.
FairSpec == Spec /\ WF_vars(Next)

(***************************************************************************)
(* Text: characters, lines, fields.                                        *)
(***************************************************************************)
\* '-DOCSTART-' of app.py:21
DOCSTART == <<"-", "D", "O", "C", "S", "T", "A", "R", "T", "-">>

\* '-DOCSTART- -X- O O\n\n' of app.py:136
HeaderText == DOCSTART \o <<" ", "-", "X", "-", " ", "O", " ", "O", "\n", "\n">>

\* ' -X- _ ' of app.py:139
PlaceholderText == <<" ", "-", "X", "-", " ", "_", " ">>

\* str.isspace() on the characters of the model
IsSpace(c) == c \in {" ", "\t", "\n"}

Min(S) == CHOOSE x \in S : \A y \in S : x <= y

Max(S) == CHOOSE x \in S : \A y \in S : x >= y

\* for line in f (app.py:19): the lines of the text, each with its line break
RECURSIVE file_lines(_)
file_lines(text) ==
    IF text = <<>> THEN <<>>
    ELSE LET breaks == { i \in 1..Len(text) : text[i] = "\n" }
             k == IF breaks = {} THEN Len(text) ELSE Min(breaks)
         IN  <<SubSeq(text, 1, k)>> \o file_lines(SubSeq(text, k + 1, Len(text)))

\* str.strip() (app.py:20)
strip(line) ==
    LET solid == { i \in 1..Len(line) : ~ IsSpace(line[i]) }
    IN  IF solid = {} THEN <<>> ELSE SubSeq(line, Min(solid), Max(solid))

\* str.startswith() (app.py:21)
startswith(line, prefix) ==
    /\ Len(line) >= Len(prefix)
    /\ SubSeq(line, 1, Len(prefix)) = prefix

\* str.split() (app.py:27): the maximal runs of non-whitespace characters
RECURSIVE split(_)
split(line) ==
    LET solid == { i \in 1..Len(line) : ~ IsSpace(line[i]) }
    IN  IF solid = {} THEN <<>>
        ELSE LET first == Min(solid)
                 gaps == { i \in first..Len(line) : IsSpace(line[i]) }
                 stop == IF gaps = {} THEN Len(line) + 1 ELSE Min(gaps)
             IN  <<SubSeq(line, first, stop - 1)>> \o split(SubSeq(line, stop, Len(line)))

\* app.py:19-33: the loop over the lines, with sentences and current_sentence
RECURSIVE read_lines(_, _, _)
read_lines(lines, sents, current_sentence) ==
    IF lines = <<>>
    THEN IF current_sentence # <<>> THEN Append(sents, current_sentence) ELSE sents
    ELSE LET line == strip(Head(lines)) IN
         IF startswith(line, DOCSTART) \/ line = <<>>
         THEN read_lines(Tail(lines),
                         IF current_sentence # <<>>
                         THEN Append(sents, current_sentence) ELSE sents,
                         <<>>)
         ELSE LET parts == split(line)
                  word == parts[1]
                  tag == parts[Len(parts)]
              IN  read_lines(Tail(lines), sents, Append(current_sentence, <<word, tag>>))

\* app.py:13-35
read_conll(text) == read_lines(file_lines(text), <<>>, <<>>)

RECURSIVE write_pairs(_)
write_pairs(sentence) ==
    IF sentence = <<>> THEN <<>>
    ELSE Head(sentence)[1] \o PlaceholderText \o Head(sentence)[2] \o <<"\n">>
         \o write_pairs(Tail(sentence))

\* app.py:137-140
RECURSIVE write_sentences_unseparated(_)
write_sentences_unseparated(sents) ==
    IF sents = <<>> THEN <<>>
    ELSE write_pairs(Head(sents)) \o write_sentences_unseparated(Tail(sents))

RECURSIVE write_sentences(_)
write_sentences(sents) ==
    IF sents = <<>> THEN <<>>
    ELSE write_pairs(Head(sents)) \o <<"\n">> \o write_sentences(Tail(sents))

\* app.py:133-140
write_conll(sents) == HeaderText \o write_sentences(sents)

(***************************************************************************)
(* Input files: up to MaxLines lines of LinePool, the last one with or     *)
(* without its line break.                                                 *)
(***************************************************************************)
LinePool ==
    { <<>>,                                           \* a blank line
      <<"w", " ", "A">>,                              \* token and label
      <<"w", "x", " ", "N", " ", "N", " ", "B">>,     \* extra columns in between
      <<"O">>,                                        \* a single field
      <<" ", "w", "\t", "O", " ">>,                   \* padded, tab-separated
      DOCSTART \o <<" ", "-", "X", "-", " ", "O">>,   \* a document boundary
      DOCSTART \o <<"w", " ", "A">>,                  \* a line that starts with the marker
      <<"w", " ">> \o DOCSTART }                      \* the marker as a label

RECURSIVE join_lines(_)
join_lines(lines) ==
    IF lines = <<>> THEN <<>>
    ELSE Head(lines) \o <<"\n">> \o join_lines(Tail(lines))

InputTexts ==
    LET bodies == UNION { [1..n -> LinePool] : n \in 0..MaxLines }
    IN  { join_lines(ls) : ls \in bodies }
        \cup { SubSeq(join_lines(ls), 1, Len(join_lines(ls)) - 1) : ls \in bodies \ {<<>>} }

(***************************************************************************)
(* read_conll, write_conll and read_conll again.                           *)
(***************************************************************************)
IdleBalance ==
    /\ target_frequencies = <<>>
    /\ max_iterations = 0
    /\ sentence_tag_counts = <<>>
    /\ best_selected = {}
    /\ best_score = NegInf
    /\ selected = {}
    /\ current_counts = <<>>
    /\ iteration = 0
    /\ improved = FALSE
    /\ snapshot = {}
    /\ todo = {}
    /\ visits = <<>>
    /\ result = <<>>

InitIO ==
    /\ \E text \in InputTexts : fs = ("in" :> text)
    /\ sentences = <<>>
    /\ IdleBalance
    /\ reread = <<>>
    /\ request = <<>>
    /\ parsed_targets = <<>>
    /\ response = <<>>
    /\ pc = "io_read"

IORead ==
    /\ pc = "io_read"
    /\ sentences' = read_conll(fs["in"])
    /\ pc' = "io_write"
    /\ UNCHANGED <<target_frequencies, max_iterations, sentence_tag_counts, best_selected,
                   best_score, selected, current_counts, iteration, improved, snapshot,
                   todo, visits, result, ioVars, handlerVars>>

IOWrite ==
    /\ pc = "io_write"
    /\ fs' = ("out" :> write_conll(sentences)) @@ fs
    /\ pc' = "io_reread"
    /\ UNCHANGED <<balanceVars, reread, handlerVars>>

IOReread ==
    /\ pc = "io_reread"
    /\ reread' = read_conll(fs["out"])
    /\ pc' = "io_done"
    /\ UNCHANGED <<balanceVars, fs, handlerVars>>

NextIO ==
    \/ IORead
    \/ IOWrite
    \/ IOReread

SpecIO == InitIO /\ [][NextIO]_vars

(***************************************************************************)
(* The /balance handler, app.py:200-265.                                   *)
(***************************************************************************)
\* max_iterations: int = 50 of app.py:9
DefaultMaxIterations == 50

\* The target_frequencies form field of a request: JSON texts and others.
PayloadTexts ==
    { "",                     \* an empty field
      "{A: 1",                \* not JSON
      "5",                    \* JSON, a number
      "[\"A\"]",              \* JSON, a list
      "null",                 \* JSON, null
      "{\"A\": \"many\"}",    \* JSON, a mapping to strings
      "{\"A\": 1}",           \* a mapping of labels to integers
      "{\"A\": 1, \"B\": 1}" }

\* json.loads (app.py:217) on the texts of PayloadTexts: whether the text is
\* JSON, the Python type of the value, whether it is a dict of int values.
json_loads(text) ==
    CASE text = "5" ->
            [ok |-> TRUE, type |-> "int", ints |-> FALSE, value |-> 5]
      [] text = "[\"A\"]" ->
            [ok |-> TRUE, type |-> "list", ints |-> FALSE, value |-> <<A>>]
      [] text = "null" ->
            [ok |-> TRUE, type |-> "NoneType", ints |-> FALSE, value |-> "None"]
      [] text = "{\"A\": \"many\"}" ->
            [ok |-> TRUE, type |-> "dict", ints |-> FALSE, value |-> (A :> "many")]
      [] text = "{\"A\": 1}" ->
            [ok |-> TRUE, type |-> "dict", ints |-> TRUE, value |-> (A :> 1)]
      [] text = "{\"A\": 1, \"B\": 1}" ->
            [ok |-> TRUE, type |-> "dict", ints |-> TRUE, value |-> (A :> 1) @@ (B :> 1)]
      [] OTHER ->
            [ok |-> FALSE, type |-> "", ints |-> FALSE, value |-> <<>>]

\* The uploaded files of the requests.
UploadTexts ==
    { <<>>,
      join_lines(<< <<"w", " ", "A">>, <<"w", " ", "O">>, <<>>,
                    <<"w", " ", "B">>, <<>>, <<"O">> >>),
      join_lines(<< <<"w", " ", "A">>, <<>>, <<"w", " ", "A">> >>) }

Requests ==
    [ has_file : BOOLEAN,
      filename : {"", "data.conll"},
      has_targets : BOOLEAN,
      target_frequencies : PayloadTexts,
      has_output_filename : BOOLEAN,
      content : UploadTexts ]

InitHandler ==
    /\ request \in Requests
    /\ sentences = <<>>
    /\ IdleBalance
    /\ fs = <<>>
    /\ reread = <<>>
    /\ parsed_targets = <<>>
    /\ response = <<>>
    /\ pc = "h_file"

Respond(status, body) ==
    /\ response' = <<status, body>>
    /\ pc' = "h_end"

\* app.py:204-205
HCheckFile ==
    /\ pc = "h_file"
    /\ IF ~ request.has_file
       THEN Respond(400, "No file provided")
       ELSE pc' = "h_filename" /\ UNCHANGED response
    /\ UNCHANGED <<balanceVars, ioVars, request, parsed_targets>>

\* app.py:207-209
HCheckFilename ==
    /\ pc = "h_filename"
    /\ IF request.filename = ""
       THEN Respond(400, "No file selected")
       ELSE pc' = "h_targets" /\ UNCHANGED response
    /\ UNCHANGED <<balanceVars, ioVars, request, parsed_targets>>

\* app.py:212-214
HGetTargets ==
    /\ pc = "h_targets"
    /\ IF ~ request.has_targets \/ request.target_frequencies = ""
       THEN Respond(400, "No target frequencies provided")
       ELSE pc' = "h_parse" /\ UNCHANGED response
    /\ UNCHANGED <<balanceVars, ioVars, request, parsed_targets>>

\* app.py:216-219
HParseTargets ==
    /\ pc = "h_parse"
    /\ IF ~ json_loads(request.target_frequencies).ok
       THEN Respond(400, "Invalid target frequencies format") /\ UNCHANGED parsed_targets
       ELSE /\ parsed_targets' = json_loads(request.target_frequencies)
            /\ pc' = "h_save"
            /\ UNCHANGED response
    /\ UNCHANGED <<balanceVars, ioVars, request>>

\* app.py:222-232: the paths, file.save(input_path)
HSaveUpload ==
    /\ pc = "h_save"
    /\ fs' = ("uploads" :> request.content) @@ fs
    /\ pc' = "h_read"
    /\ UNCHANGED <<balanceVars, reread, handlerVars>>

\* app.py:235-237: NERBalancer(target_frequencies), read_conll, and the call of
\* balance_dataset.  With targets that are no dict of integers the call raises
\* in its first iteration (app.py:57, 59, 66 or 69).
HRead ==
    /\ pc = "h_read"
    /\ target_frequencies' = parsed_targets.value
    /\ max_iterations' = DefaultMaxIterations
    /\ sentences' = read_conll(fs["uploads"])
    /\ pc' = IF parsed_targets.type = "dict" /\ parsed_targets.ints
             THEN "balance" ELSE "balance_raises"
    /\ UNCHANGED <<sentence_tag_counts, best_selected, best_score, selected,
                   current_counts, iteration, improved, snapshot, todo, visits, result,
                   ioVars, handlerVars>>

\* app.py:264-265, reached from balance_dataset
HExcept ==
    /\ pc = "balance_raises"
    /\ Respond(500, "exception")
    /\ UNCHANGED <<balanceVars, ioVars, request, parsed_targets>>

\* app.py:238
HWrite ==
    /\ pc = "done"
    /\ fs' = ("outputs" :> write_conll(result)) @@ fs
    /\ pc' = "h_respond"
    /\ UNCHANGED <<balanceVars, reread, handlerVars>>

\* app.py:241-262: the statistics, os.remove(input_path), the response
HRespond ==
    /\ pc = "h_respond"
    /\ fs' = [path \in DOMAIN fs \ {"uploads"} |-> fs[path]]
    /\ Respond(200, "File processed successfully")
    /\ UNCHANGED <<balanceVars, reread, request, parsed_targets>>

NextHandler ==
    \/ HCheckFile
    \/ HCheckFilename
    \/ HGetTargets
    \/ HParseTargets
    \/ HSaveUpload
    \/ HRead
    \/ HExcept
    \/ Next
    \/ HWrite
    \/ HRespond

SpecHandler == InitHandler /\ [][NextHandler]_vars

(***************************************************************************)
(* Properties.                                                             *)
(***************************************************************************)
\* The number of tokens of a sentence that carry the label; 'O' is no label.
LabelCount(sentence, label) ==
    IF label = OTag THEN 0
    ELSE Cardinality({ i \in 1..Len(sentence) : sentence[i][2] = label })

\* The label's count over a list of sentences.
ListCount(sents, label) ==
    SumOver(DOMAIN sents, [k \in DOMAIN sents |-> LabelCount(sents[k], label)])

TouchesTarget(idx) ==
    \E label \in DOMAIN target_frequencies : LabelCount(sentences[idx + 1], label) > 0

InBalance == pc \in {"loop", "remove", "add", "return", "done"}

AtBoundary == pc \in {"loop", "return", "done"}

\* C1: at every iteration boundary the incrementally maintained current_counts
\* agrees, label by label, with get_current_counts over selected computed from
\* scratch; and no count of current_counts is ever negative.
C1_CountInvariant ==
    InBalance =>
        LET fresh == get_current_counts(selected, sentence_tag_counts) IN
        /\ AtBoundary =>
              \A tag \in DOMAIN current_counts \cup DOMAIN fresh :
                  Get(current_counts, tag) = Get(fresh, tag)
        /\ \A tag \in DOMAIN current_counts : current_counts[tag] >= 0

\* An iteration has ended with some sentences removed for good and others kept.
C1_Witness ==
    /\ pc = "loop"
    /\ iteration >= 1
    /\ selected # {}
    /\ AllIndices \ selected # {}
    /\ \E tag \in DOMAIN current_counts : tag \notin DOMAIN target_frequencies

\* The score of the list balance_dataset returned.
ScoreOfResult ==
    0 - SumOver(DOMAIN target_frequencies,
                [tag \in DOMAIN target_frequencies |->
                    Abs(ListCount(result, tag) - target_frequencies[tag])])

\* C2: best_score never decreases, and for every max_iterations >= 0 the
\* score of the returned subset equals the final best_score.
C2_ReturnedScoreIsBestScore ==
    /\ [][best_score' >= best_score]_vars
    /\ [](pc = "done" => ScoreOfResult = best_score)

\* C3: within a pass the indices of the snapshot are visited in ascending
\* order: each visit takes the least index not visited yet.
C3_AscendingOrder ==
    [][(pc \in {"remove", "add"} /\ pc' = pc /\ todo' # todo)
            => (todo \ todo') = {Min(todo)}]_vars

ExactMatch ==
    \A tag \in DOMAIN target_frequencies :
        ListCount(sentences, tag) = target_frequencies[tag]

\* C4: when the whole corpus has exactly the target count of every target
\* label and max_iterations >= 1, balance_dataset returns every sentence, in
\* the original order, and best_score is 0.
C4_ExactMatchRetained ==
    (pc = "done" /\ max_iterations >= 1 /\ ExactMatch) =>
        /\ result = sentences
        /\ best_score = 0

\* Two sentences and two target labels, each met exactly, as in the example.
C4_Witness ==
    /\ pc = "done"
    /\ max_iterations >= 1
    /\ ExactMatch
    /\ DOMAIN target_frequencies = {A, B}
    /\ Len(sentences) >= 2
    /\ result = sentences

\* C5: balance_dataset ends; it begins at most max_iterations rounds of the
\* loop; and when a pass ends it has visited every index of its snapshot
\* exactly once and no other index.
C5_Termination ==
    /\ <>(pc = "done")
    /\ [](iteration <= max_iterations)
    /\ [][(pc \in {"remove", "add"} /\ pc' # pc) =>
            \A idx \in AllIndices : visits[idx] = IF idx \in snapshot THEN 1 ELSE 0]_vars

\* A run that used up all of its rounds on a corpus of several sentences.
C5_Witness ==
    /\ pc = "done"
    /\ max_iterations >= 2
    /\ iteration = max_iterations
    /\ Len(sentences) >= 2

\* C6: reading what write_conll wrote of the sentences read_conll produced
\* gives the same number of sentences, in the same order, each with the same
\* <<token, label>> pairs: the header and the placeholder columns add nothing.
C6_RoundTrip ==
    pc = "io_done" =>
        /\ Len(reread) = Len(sentences)
        /\ \A k \in 1..Len(sentences) : reread[k] = sentences[k]

\* Several sentences, one of them with a single-field line (token = label).
C6_Witness ==
    /\ pc = "io_done"
    /\ Len(sentences) >= 2
    /\ \E k \in 1..Len(sentences) :
           \E i \in 1..Len(sentences[k]) : sentences[k][i][1] = sentences[k][i][2]
    /\ reread = sentences

PayloadIsMapping ==
    /\ request.has_targets
    /\ LET p == json_loads(request.target_frequencies)
       IN  p.ok /\ p.type = "dict" /\ p.ints

\* C7: a request whose target-frequency payload is absent or is no mapping of
\* labels to integers is answered with a client error, and its file is
\* neither saved nor parsed nor balanced, and no output is written.
C7_RejectedBeforeProcessing ==
    ~ PayloadIsMapping =>
        /\ "uploads" \notin DOMAIN fs
        /\ "outputs" \notin DOMAIN fs
        /\ pc \in {"h_file", "h_filename", "h_targets", "h_parse", "h_end"}
        /\ response = <<>> \/ response[1] = 400

RemovalAdmitted(idx) ==
    \A label \in DOMAIN target_frequencies :
        LET c == LabelCount(sentences[idx + 1], label)
            a == Get(current_counts, label)
        IN  c > 0 => /\ a >= target_frequencies[label]
                     /\ 5 * (a - c) >= 4 * target_frequencies[label]

\* C8: a visit of the removal pass removes the sentence if and only if every
\* target label it contributes to is at or above target and stays at or above
\* 80% of target without the sentence; other labels are not consulted.
C8_RemovalRule ==
    [][(pc = "remove" /\ pc' = "remove" /\ todo' # todo) =>
            LET idx == CHOOSE i \in todo \ todo' : TRUE
            IN  /\ idx \in snapshot
                /\ idx \in selected
                /\ (idx \notin selected') <=> RemovalAdmitted(idx)]_vars

\* A removal pass has ended in which one sentence with a target label was
\* removed and another one was kept.
C8_Witness ==
    /\ pc = "remove"
    /\ todo = {}
    /\ \E i \in snapshot \ selected : TouchesTarget(i)
    /\ \E j \in snapshot \cap selected : TouchesTarget(j)

AdditionAdmitted(idx) ==
    \A label \in DOMAIN target_frequencies :
        LET c == LabelCount(sentences[idx + 1], label)
            a == Get(current_counts, label)
        IN  c > 0 => 10 * (a + c) <= 11 * target_frequencies[label]

\* C9: the addition pass visits the complement of the selection as it is when
\* the pass starts, the sentences removed earlier in the iteration included;
\* a visit adds the sentence if and only if no target label it contributes to
\* would pass 110% of its target; other labels are not consulted.
C9_AdditionRule ==
    [][/\ (pc = "add" /\ pc' = "add" /\ todo' # todo) =>
            LET idx == CHOOSE i \in todo \ todo' : TRUE
            IN  /\ idx \in snapshot
                /\ idx \notin selected
                /\ (idx \in selected') <=> AdditionAdmitted(idx)
       /\ (pc = "remove" /\ pc' = "add") =>
            /\ snapshot' = AllIndices \ selected
            /\ (snapshot \ selected) \subseteq snapshot']_vars

\* An addition pass has ended in which one sentence with a target label was
\* added and another one was refused.
C9_Witness ==
    /\ pc = "add"
    /\ todo = {}
    /\ \E i \in snapshot \cap selected : TouchesTarget(i)
    /\ \E j \in snapshot \ selected : TouchesTarget(j)

\* C10: a sentence without any target label is out of the selection once the
\* removal pass has visited it and back in once the addition pass has, which
\* sets improved; so no run with such a sentence stops early, every run
\* begins exactly max_iterations rounds, the sentence is selected at every
\* iteration boundary and, for max_iterations >= 1, it is returned.
C10_Churn ==
    \A idx \in AllIndices :
        (InBalance /\ ~ TouchesTarget(idx)) =>
            /\ AtBoundary => idx \in selected
            /\ (pc = "remove" /\ idx \notin todo) => idx \notin selected
            /\ (pc = "add" /\ idx \notin todo) => (idx \in selected /\ improved)
            /\ pc \in {"return", "done"} => iteration = max_iterations
            /\ (pc = "done" /\ max_iterations >= 1) =>
                  /\ idx \in best_selected
                  /\ \E k \in 1..Len(result) : result[k] = sentences[idx + 1]

\* A finished run of two rounds over a corpus with a sentence whose only
\* label is not a target label.
C10_Witness ==
    /\ pc = "done"
    /\ max_iterations >= 2
    /\ iteration = max_iterations
    /\ DOMAIN target_frequencies # {}
    /\ \E idx \in AllIndices :
          /\ ~ TouchesTarget(idx)
          /\ LabelCount(sentences[idx + 1], B) > 0

====
